---- MODULE Spec2Model ----
(***************************************************************************)
(* Session / chart orchestration of the charts_agent browser client.       *)
(*                                                                         *)
(* The orchestrator is the App component (App.tsx): ten useState cells and *)
(* three async handlers.  Each handler runs synchronously up to its await  *)
(* (one action), and its continuation - try-rest or catch, plus finally -  *)
(* runs when the collaborator's promise settles (a second action).  The    *)
(* child components (UploadPanel, ChatPanel, ChartControls) guard the      *)
(* events that reach the handlers.                                         *)
(***************************************************************************)
EXTENDS Integers, Sequences, FiniteSets, Bags, TLC

VARIABLES
    sessionId,      \* App.tsx:17  string | null
    columns,        \* App.tsx:18  ColumnSummary[]
    preview,        \* App.tsx:19  PreviewRow[]
    charts,         \* App.tsx:20  ChartIdea[]
    history,        \* App.tsx:21  Message[]
    uploading,      \* App.tsx:22
    chatLoading,    \* App.tsx:23
    manualLoading,  \* App.tsx:24
    status,         \* App.tsx:25
    error,          \* App.tsx:26  string | null
    ctrl,           \* ChartControls state: chartType, groupBy, value, agg
    calls           \* collaborator calls in flight (a bag of call records)

vars == <<sessionId, columns, preview, charts, history, uploading,
          chatLoading, manualLoading, status, error, ctrl, calls>>

orch == <<sessionId, columns, preview, charts, history, uploading,
          chatLoading, manualLoading, status, error>>

----------------------------------------------------------------------------
(* Bounds and input domains *)

\* longest chart list / transcript a collaborator answers with
MaxRespLen == 1
\* most collaborator calls in flight when handlers are invoked directly
MaxCalls == 2

\* JavaScript null (for string | null cells) and undefined (optional strings)
NULL == "<null>"

SessionIds == {"s1", "s2"}
Texts == {"hello"}

\* the lists of length at most n that start with a and alternate with b
Prefixes(a, b, n) ==
    {[i \in 1..k |-> IF i % 2 = 1 THEN a ELSE b] : k \in 0..n}

\* the lists of length at most n that alternate between a and b
Alternations(a, b, n) ==
    UNION {{[i \in 1..k |-> IF i % 2 = 1 THEN a ELSE b],
            [i \in 1..k |-> IF i % 2 = 1 THEN b ELSE a]} : k \in 0..n}

\* an optional JSON field: present with a value, or omitted
Some(v) == [has |-> TRUE, v |-> v]
None == [has |-> FALSE, v |-> <<>>]
Opt(S) == {Some(v) : v \in S} \cup {None}

\* chart kinds are strings the client lower-cases and searches, so they are
\* kept as sequences of characters
bar == <<"b", "a", "r">>
line == <<"l", "i", "n", "e">>
pie == <<"p", "i", "e">>

\* types.ts ChartIdea, reduced to the fields the client reads: chart_type
\* (empty when absent) and option.series (an array of entries, each with or
\* without a string type; or not an array)
ChartIdea(title, chart_type, series) ==
    [title |-> title, chart_type |-> chart_type, series |-> series]

\* types.ts ChartIdea and Message, reduced to the fields the client reads:
\* the chart lists and transcripts a collaborator answers with
ChartLists ==
    Prefixes(ChartIdea("c1", bar, None),
             ChartIdea("c2", <<>>, Some(<<Some(line)>>)),
             MaxRespLen)
Transcripts ==
    Alternations([role |-> "user", content |-> "hello"],
                 [role |-> "assistant", content |-> "reply"], MaxRespLen)

\* the ?? operator on an optional list field
OrElse(opt, dflt) == IF opt.has THEN opt.v ELSE dflt

\* truthiness of a string | null | undefined value
Truthy(s) == s # NULL /\ s # ""

----------------------------------------------------------------------------
(* api.ts: the three collaborator calls *)

\* how a fetch can fail: the promise rejects (network), or the response is
\* not ok (here with an empty body text)
Failures == {[kind |-> "network", text |-> ""],
             [kind |-> "http", text |-> ""]}

\* mutant: the body text is the message even when it is empty
handleResponse_noFallback(f) ==
    IF f.kind = "network" THEN "Failed to fetch" ELSE f.text

\* message of the Error thrown by fetch / handleResponse
handleResponse(f) ==
    IF f.kind = "network" THEN "Failed to fetch"
    ELSE IF f.text # "" THEN f.text
    ELSE "Request failed with status 500"

\* types.ts ColumnSummary, reduced to the fields the client reads
qty == [name |-> "qty", dtype |-> "int64"]
price == [name |-> "price", dtype |-> "float64"]
city == [name |-> "city", dtype |-> "object"]

\* the profiles the Dataset Profile Collaborator answers with: a table with
\* two numeric columns and a text column, a table with a text column only
\* and no preview field, and a body without a columns field
Datasets == {[columns |-> Some(<<qty, city, price>>),
              preview |-> Some(<<"row">>)],
             [columns |-> Some(<<city>>), preview |-> None],
             [columns |-> None, preview |-> Some(<<"row">>)]}

\* JSON bodies the collaborators can answer with
UploadBodies == {[session_id |-> sid, columns |-> d.columns,
                  preview |-> d.preview] : sid \in SessionIds, d \in Datasets}
ChatResponses == [charts : Opt(ChartLists), history : Opt(Transcripts)]
ManualResponses == [message : {NULL, "Built chart."}, charts : Opt(ChartLists)]

\* uploadDataset's return value for a body
uploadDataset(data) ==
    [sessionId |-> data.session_id,
     columns |-> OrElse(data.columns, <<>>),
     preview |-> OrElse(data.preview, <<>>)]

\* ManualChartRequest; value is NULL when undefined
NoPayload == [chartType |-> "bar", groupBy |-> "", value |-> NULL,
              agg |-> "count"]

\* a call in flight: the arguments the handler passed, and (for the
\* observer) the transcript at the moment the handler was entered
Call(kind, sid, msg, payload, hist0) ==
    [kind |-> kind, sid |-> sid, msg |-> msg, payload |-> payload,
     hist0 |-> hist0]

InFlight(kind) == {c \in DOMAIN calls : c.kind = kind}

Issue(c) == calls' = calls (+) SetToBag({c})
Settle(c) == calls' = calls (-) SetToBag({c})

----------------------------------------------------------------------------
(* ChartControls.tsx *)

\* chartOptions and aggregationOptions
ChartTypes == {"bar", "line", "pie"}
Aggregations == {"count", "sum", "mean"}
\* the chart types the user picks here
ChartTypeChoices == {"bar", "pie"}

isNumeric(dtype) == dtype \in {"int64", "float64"}

groupableColumns(cols) == [i \in DOMAIN cols |-> cols[i].name]

numericColumns(cols) ==
    LET F[i \in 0..Len(cols)] ==
            IF i = 0 THEN <<>>
            ELSE IF isNumeric(cols[i].dtype)
                 THEN Append(F[i - 1], cols[i].name)
                 ELSE F[i - 1]
    IN F[Len(cols)]

Range(s) == {s[i] : i \in DOMAIN s}

\* the two effects, run after a render until nothing changes
runEffects(c, cols) ==
    LET g == IF c.groupBy = "" /\ Len(cols) > 0
             THEN groupableColumns(cols)[1] ELSE c.groupBy
        num == numericColumns(cols)
        v == IF c.agg = "count" THEN ""
             ELSE IF c.value = "" /\ Len(num) > 0 THEN num[1]
             ELSE c.value
    IN [c EXCEPT !.groupBy = g, !.value = v]

hasDataset == Truthy(sessionId)

requiresValue(c) == c.agg # "count"

\* mutant: the value column is not required
ready_ignoreValue(c) ==
    /\ c.groupBy # ""
    /\ hasDataset

ready(c) ==
    /\ c.groupBy # ""
    /\ (~requiresValue(c) \/ c.value # "")
    /\ hasDataset

----------------------------------------------------------------------------
(* ChartGrid.tsx and ChartCard.tsx: chart kinds and the three-slot layout *)

\* String.prototype.toLowerCase / toUpperCase, letter by letter
UpperLetters ==
    <<"A", "B", "C", "D", "E", "F", "G", "H", "I", "J", "K", "L", "M",
      "N", "O", "P", "Q", "R", "S", "T", "U", "V", "W", "X", "Y", "Z">>
LowerLetters ==
    <<"a", "b", "c", "d", "e", "f", "g", "h", "i", "j", "k", "l", "m",
      "n", "o", "p", "q", "r", "s", "t", "u", "v", "w", "x", "y", "z">>

Recase(ch, from, to) ==
    IF \E i \in DOMAIN from : from[i] = ch
    THEN to[CHOOSE i \in DOMAIN from : from[i] = ch]
    ELSE ch

toLowerCase(s) == [i \in DOMAIN s |-> Recase(s[i], UpperLetters, LowerLetters)]
toUpperCase(s) == [i \in DOMAIN s |-> Recase(s[i], LowerLetters, UpperLetters)]

\* String.prototype.includes: sub occurs in s as a contiguous run
includes(s, sub) ==
    \E i \in 0..(Len(s) - Len(sub)) : SubSeq(s, i + 1, i + Len(sub)) = sub

\* a null chart (an empty slot, or normalizeType(null))
NoChart == ChartIdea(NULL, <<>>, None)

\* Array.isArray(option?.series) ? option.series : []
seriesOf(chart) == IF chart.series.has THEN chart.series.v ELSE <<>>

\* series.find((entry) => typeof entry?.type === "string")?.type
firstStringType(series) ==
    LET typed == {i \in DOMAIN series : series[i].has} IN
    IF typed = {} THEN None
    ELSE series[CHOOSE i \in typed : \A j \in typed : i <= j]

\* mutant: the kind is taken from the last series entry that has a type
normalizeType_lastSeries(chart) ==
    IF chart = NoChart THEN <<>>
    ELSE IF chart.chart_type # <<>> THEN toLowerCase(chart.chart_type)
    ELSE LET series == seriesOf(chart)
             typed == {i \in DOMAIN series : series[i].has} IN
         IF typed = {} THEN <<>>
         ELSE toLowerCase(series[CHOOSE i \in typed : \A j \in typed : j <= i].v)

normalizeType(chart) ==
    IF chart = NoChart THEN <<>>
    ELSE IF chart.chart_type # <<>> THEN toLowerCase(chart.chart_type)
    ELSE LET firstType == firstStringType(seriesOf(chart)) IN
         IF firstType.has THEN toLowerCase(firstType.v) ELSE <<>>

\* mutant: the line slot is filled before the bar slot
preferredSlots_lineFirst == <<line, bar, pie>>

\* mutant: a fourth slot without an expected kind takes a leftover chart
preferredSlots_overflow == <<bar, line, pie, <<>>>>

\* the expectedType of each slot, in order
preferredSlots == <<bar, line, pie>>

\* the working list holds references to the charts of the collection: each
\* entry is a chart together with its position in the collection
Ref(pos, chart) == [pos |-> pos, chart |-> chart]
NoRef == Ref(0, NoChart)
spread(cs) == [i \in DOMAIN cs |-> Ref(i, cs[i])]

\* Array.prototype.splice(i, 1) on the working list
splice(remaining, i) ==
    SubSeq(remaining, 1, i - 1) \o SubSeq(remaining, i + 1, Len(remaining))

\* mutant: the claimed chart stays in the working list
claimChart_noSplice(remaining, expectedType) ==
    LET hit[i \in 0..Len(remaining)] ==
            IF i = 0 THEN 0
            ELSE IF includes(normalizeType(remaining[i].chart), expectedType)
                 THEN i ELSE hit[i - 1]
        found == hit[Len(remaining)] IN
    IF found = 0 THEN [chart |-> NoRef, remaining |-> remaining]
    ELSE [chart |-> remaining[found], remaining |-> remaining]

\* mutant: the working list is scanned from its first entry
claimChart_fromStart(remaining, expectedType) ==
    LET n == Len(remaining)
        hit[i \in 1..(n + 1)] ==
            IF i = n + 1 THEN 0
            ELSE IF includes(normalizeType(remaining[i].chart), expectedType)
                 THEN i ELSE hit[i + 1]
        found == hit[1] IN
    IF found = 0 THEN [chart |-> NoRef, remaining |-> remaining]
    ELSE [chart |-> remaining[found], remaining |-> splice(remaining, found)]

\* claimChart: the chart a slot takes and the working list it leaves
claimChart(remaining, expectedType) ==
    IF expectedType = <<>>
    THEN IF remaining = <<>> THEN [chart |-> NoRef, remaining |-> remaining]
         ELSE [chart |-> Head(remaining), remaining |-> Tail(remaining)]
    ELSE LET hit[i \in 0..Len(remaining)] ==
                 IF i = 0 THEN 0
                 ELSE IF includes(normalizeType(remaining[i].chart), expectedType)
                      THEN i ELSE hit[i - 1]
             found == hit[Len(remaining)] IN
         IF found = 0 THEN [chart |-> NoRef, remaining |-> remaining]
         ELSE [chart |-> remaining[found],
               remaining |-> splice(remaining, found)]

\* preferredSlots.map(...): the slots are filled one after the other, each
\* from the working list the slots before it left
RECURSIVE mapSlots(_, _)
mapSlots(k, remaining) ==
    IF k > Len(preferredSlots) THEN [slots |-> <<>>, remaining |-> remaining]
    ELSE LET claimed == claimChart(remaining, preferredSlots[k])
             rest == mapSlots(k + 1, claimed.remaining) IN
         [slots |-> <<[chart |-> claimed.chart,
                       expectedType |-> preferredSlots[k]]>> \o rest.slots,
          remaining |-> rest.remaining]

\* mutant: the working list is the collection itself, so a claim removes the
\* chart from the collection
ChartGrid_noCopy(cs) ==
    LET run == mapSlots(1, spread(cs)) IN
    [slots |-> run.slots,
     remaining |-> run.remaining,
     charts |-> [i \in DOMAIN run.remaining |-> run.remaining[i].chart]]

\* one render of ChartGrid: the slots it hands to the cards, the working list
\* it ends with, and the collection it was given as the run leaves it
ChartGrid(cs) ==
    LET run == mapSlots(1, spread(cs)) IN
    [slots |-> run.slots, remaining |-> run.remaining, charts |-> cs]

\* ChartCard.tsx getDisplayType: detected ?? fallback ?? undefined
getDisplayType(chart, fallback) ==
    IF chart # NoChart /\ chart.chart_type # <<>> THEN Some(chart.chart_type)
    ELSE LET detected ==
                 IF chart = NoChart THEN None
                 ELSE firstStringType(seriesOf(chart)) IN
         IF detected.has THEN detected ELSE fallback

\* ChartCard.tsx: the kind a card shows for its slot
displayType(slot) ==
    getDisplayType(slot.chart.chart,
                   IF slot.expectedType # <<>>
                   THEN Some(toUpperCase(slot.expectedType)) ELSE None)

----------------------------------------------------------------------------
(* App.tsx: initial state *)

Init ==
    /\ sessionId = NULL
    /\ columns = <<>>
    /\ preview = <<>>
    /\ charts = <<>>
    /\ history = <<>>
    /\ uploading = FALSE
    /\ chatLoading = FALSE
    /\ manualLoading = FALSE
    /\ status = "Upload a dataset to begin."
    /\ error = NULL
    /\ ctrl = [chartType |-> "bar", groupBy |-> "", value |-> "",
               agg |-> "count"]
    /\ calls = EmptyBag

----------------------------------------------------------------------------
(* App.tsx: handleUpload *)

handleUpload ==
    LET c == Call("upload", NULL, "", NoPayload, <<>>) IN
    /\ uploading' = TRUE
    /\ error' = NULL
    /\ status' = "Uploading dataset..."
    /\ Issue(c)
    /\ UNCHANGED <<sessionId, columns, preview, charts, history,
                   chatLoading, manualLoading, ctrl>>

\* mutant: the success path forgets to clear the transcript
handleUpload_then_keepHistory(c, data) ==
    LET result == uploadDataset(data) IN
    /\ status' = "Dataset loaded. Ask the agent for insights."
    /\ sessionId' = result.sessionId
    /\ columns' = result.columns
    /\ preview' = result.preview
    /\ charts' = <<>>
    /\ uploading' = FALSE
    /\ ctrl' = runEffects(ctrl, result.columns)
    /\ Settle(c)
    /\ UNCHANGED <<history, chatLoading, manualLoading, error>>

\* mutant: the success path appends the new columns to the old ones
handleUpload_then_mergeColumns(c, data) ==
    LET result == uploadDataset(data) IN
    /\ status' = "Dataset loaded. Ask the agent for insights."
    /\ sessionId' = result.sessionId
    /\ columns' = columns \o result.columns
    /\ preview' = result.preview
    /\ charts' = <<>>
    /\ history' = <<>>
    /\ uploading' = FALSE
    /\ ctrl' = runEffects(ctrl, columns \o result.columns)
    /\ Settle(c)
    /\ UNCHANGED <<chatLoading, manualLoading, error>>

handleUpload_then(c, data) ==
    LET result == uploadDataset(data) IN
    /\ status' = "Dataset loaded. Ask the agent for insights."
    /\ sessionId' = result.sessionId
    /\ columns' = result.columns
    /\ preview' = result.preview
    /\ charts' = <<>>
    /\ history' = <<>>
    /\ uploading' = FALSE
    /\ ctrl' = runEffects(ctrl, result.columns)
    /\ Settle(c)
    /\ UNCHANGED <<chatLoading, manualLoading, error>>

\* mutant: the failure path drops the session
handleUpload_catch_dropSession(c, f) ==
    /\ status' = "Upload failed. Please try another file."
    /\ error' = handleResponse(f)
    /\ uploading' = FALSE
    /\ sessionId' = NULL
    /\ columns' = <<>>
    /\ preview' = <<>>
    /\ Settle(c)
    /\ UNCHANGED <<charts, history, chatLoading, manualLoading, ctrl>>

handleUpload_catch(c, f) ==
    /\ status' = "Upload failed. Please try another file."
    /\ error' = handleResponse(f)
    /\ uploading' = FALSE
    /\ Settle(c)
    /\ UNCHANGED <<sessionId, columns, preview, charts, history,
                   chatLoading, manualLoading, ctrl>>

----------------------------------------------------------------------------
(* App.tsx: handleSendMessage *)

\* mutant: the rollback removes two entries
dropLastTwo(s) == IF Len(s) <= 1 THEN <<>> ELSE SubSeq(s, 1, Len(s) - 2)

\* Array.prototype.slice(0, -1)
dropLast(s) == IF Len(s) = 0 THEN <<>> ELSE SubSeq(s, 1, Len(s) - 1)

\* mutant: the session check is missing
handleSendMessage_unguarded(message) ==
    LET c == Call("chat", sessionId, message, NoPayload, history) IN
    /\ chatLoading' = TRUE
    /\ error' = NULL
    /\ status' = "Agent is exploring the dataset..."
    /\ history' = Append(history, [role |-> "user", content |-> message])
    /\ Issue(c)
    /\ UNCHANGED <<sessionId, columns, preview, charts, uploading,
                   manualLoading, ctrl>>

\* mutant: the user entry is not appended before the call
handleSendMessage_noAppend(message) ==
    IF ~Truthy(sessionId)
    THEN /\ error' = "Upload a dataset before chatting with the agent."
         /\ UNCHANGED <<sessionId, columns, preview, charts, history,
                        uploading, chatLoading, manualLoading, status,
                        ctrl, calls>>
    ELSE LET c == Call("chat", sessionId, message, NoPayload, history) IN
         /\ chatLoading' = TRUE
         /\ error' = NULL
         /\ status' = "Agent is exploring the dataset..."
         /\ Issue(c)
         /\ UNCHANGED <<sessionId, columns, preview, charts, history,
                        uploading, manualLoading, ctrl>>

handleSendMessage(message) ==
    IF ~Truthy(sessionId)
    THEN /\ error' = "Upload a dataset before chatting with the agent."
         /\ UNCHANGED <<sessionId, columns, preview, charts, history,
                        uploading, chatLoading, manualLoading, status,
                        ctrl, calls>>
    ELSE LET c == Call("chat", sessionId, message, NoPayload, history) IN
         /\ chatLoading' = TRUE
         /\ error' = NULL
         /\ status' = "Agent is exploring the dataset..."
         /\ history' = Append(history, [role |-> "user", content |-> message])
         /\ Issue(c)
         /\ UNCHANGED <<sessionId, columns, preview, charts, uploading,
                        manualLoading, ctrl>>

\* mutant: the returned transcript is appended to the local one
handleSendMessage_then_merge(c, response) ==
    /\ status' = "Charts updated. Ask another question to refine."
    /\ charts' = OrElse(response.charts, <<>>)
    /\ history' = history \o OrElse(response.history, <<>>)
    /\ chatLoading' = FALSE
    /\ Settle(c)
    /\ UNCHANGED <<sessionId, columns, preview, uploading, manualLoading,
                   error, ctrl>>

\* mutant: a field the response omits keeps its current value
handleSendMessage_then_keepOmitted(c, response) ==
    /\ status' = "Charts updated. Ask another question to refine."
    /\ charts' = OrElse(response.charts, charts)
    /\ history' = OrElse(response.history, history)
    /\ chatLoading' = FALSE
    /\ Settle(c)
    /\ UNCHANGED <<sessionId, columns, preview, uploading, manualLoading,
                   error, ctrl>>

handleSendMessage_then(c, response) ==
    /\ status' = "Charts updated. Ask another question to refine."
    /\ charts' = OrElse(response.charts, <<>>)
    /\ history' = OrElse(response.history, <<>>)
    /\ chatLoading' = FALSE
    /\ Settle(c)
    /\ UNCHANGED <<sessionId, columns, preview, uploading, manualLoading,
                   error, ctrl>>

\* mutant: the failure path does not reset the busy flag
handleSendMessage_catch_keepLoading(c, f) ==
    /\ status' = "Agent error. Try sending your message again."
    /\ history' = dropLast(history)
    /\ error' = handleResponse(f)
    /\ Settle(c)
    /\ UNCHANGED <<sessionId, columns, preview, charts, uploading,
                   chatLoading, manualLoading, ctrl>>

handleSendMessage_catch(c, f) ==
    /\ status' = "Agent error. Try sending your message again."
    /\ history' = dropLast(history)
    /\ error' = handleResponse(f)
    /\ chatLoading' = FALSE
    /\ Settle(c)
    /\ UNCHANGED <<sessionId, columns, preview, charts, uploading,
                   manualLoading, ctrl>>

----------------------------------------------------------------------------
(* App.tsx: handleBuildManualChart *)

handleBuildManualChart(payload) ==
    IF ~Truthy(sessionId)
    THEN /\ error' = "Upload a dataset before building charts."
         /\ UNCHANGED <<sessionId, columns, preview, charts, history,
                        uploading, chatLoading, manualLoading, status,
                        ctrl, calls>>
    ELSE LET c == Call("manual", sessionId, "", payload, <<>>) IN
         /\ manualLoading' = TRUE
         /\ error' = NULL
         /\ status' = "Building chart from your columns..."
         /\ Issue(c)
         /\ UNCHANGED <<sessionId, columns, preview, charts, history,
                        uploading, chatLoading, ctrl>>

\* mutant: a manual build also resets the transcript
handleBuildManualChart_then_resetHistory(c, response) ==
    /\ status' = IF response.message # NULL THEN response.message
                 ELSE "Chart updated."
    /\ charts' = OrElse(response.charts, <<>>)
    /\ history' = <<>>
    /\ manualLoading' = FALSE
    /\ Settle(c)
    /\ UNCHANGED <<sessionId, columns, preview, uploading,
                   chatLoading, error, ctrl>>

handleBuildManualChart_then(c, response) ==
    /\ status' = IF response.message # NULL THEN response.message
                 ELSE "Chart updated."
    /\ charts' = OrElse(response.charts, <<>>)
    /\ manualLoading' = FALSE
    /\ Settle(c)
    /\ UNCHANGED <<sessionId, columns, preview, history, uploading,
                   chatLoading, error, ctrl>>

handleBuildManualChart_catch(c, f) ==
    /\ status' = "Manual chart failed. Adjust selections and retry."
    /\ error' = handleResponse(f)
    /\ manualLoading' = FALSE
    /\ Settle(c)
    /\ UNCHANGED <<sessionId, columns, preview, charts, history,
                   uploading, chatLoading, ctrl>>

----------------------------------------------------------------------------
(* The components that trigger the handlers *)

\* UploadPanel.tsx: the file input is disabled while uploading
UploadPanel_handleFileChange ==
    /\ ~uploading
    /\ handleUpload

\* mutant: the chat input is not blocked while a chat call is in flight
ChatPanel_handleSubmit_whileLoading(input) ==
    /\ ~(input = "" \/ ~hasDataset)
    /\ handleSendMessage(input)

\* ChatPanel.tsx: handleSubmit; input is the trimmed text of the input box
ChatPanel_handleSubmit(input) ==
    /\ ~(input = "" \/ ~hasDataset \/ chatLoading)
    /\ handleSendMessage(input)

\* ChartControls.tsx: the four selects, each followed by the effects
selectEnabled == hasDataset /\ ~manualLoading

select(c) ==
    /\ selectEnabled
    /\ ctrl' = runEffects(c, columns)
    /\ ctrl' # ctrl
    /\ UNCHANGED <<orch, calls>>

setChartType(t) == select([ctrl EXCEPT !.chartType = t])

setGroupBy(g) ==
    /\ Len(columns) > 0
    /\ g \in Range(groupableColumns(columns)) \cup {""}
    /\ select([ctrl EXCEPT !.groupBy = g])

setAgg(a) == select([ctrl EXCEPT !.agg = a])

setValue(v) ==
    /\ ctrl.agg # "count"
    /\ Len(numericColumns(columns)) > 0
    /\ v \in Range(numericColumns(columns)) \cup {""}
    /\ select([ctrl EXCEPT !.value = v])

\* ChartControls.tsx: handleSubmit
ChartControls_handleSubmit ==
    /\ ctrl.groupBy # ""
    /\ handleBuildManualChart(
           [chartType |-> ctrl.chartType,
            groupBy |-> ctrl.groupBy,
            value |-> IF requiresValue(ctrl) THEN ctrl.value ELSE NULL,
            agg |-> ctrl.agg])

\* the Build button: a click reaches handleSubmit only when it is enabled
buildButton ==
    /\ ready(ctrl) /\ ~manualLoading
    /\ ChartControls_handleSubmit

----------------------------------------------------------------------------
(* The collaborators answer or fail *)

uploadSettles ==
    \E c \in InFlight("upload") :
        \/ \E data \in UploadBodies : handleUpload_then(c, data)
        \/ \E f \in Failures : handleUpload_catch(c, f)

chatSettles ==
    \E c \in InFlight("chat") :
        \/ \E r \in ChatResponses : handleSendMessage_then(c, r)
        \/ \E f \in Failures : handleSendMessage_catch(c, f)

manualSettles ==
    \E c \in InFlight("manual") :
        \/ \E r \in ManualResponses : handleBuildManualChart_then(c, r)
        \/ \E f \in Failures : handleBuildManualChart_catch(c, f)

----------------------------------------------------------------------------
(* Spec: the handlers driven through the components *)

ColumnNames == {qty.name, price.name, city.name}

Next ==
    \/ UploadPanel_handleFileChange
    \/ \E input \in Texts \cup {""} : ChatPanel_handleSubmit(input)
    \/ \E t \in ChartTypeChoices : setChartType(t)
    \/ \E g \in ColumnNames \cup {""} : setGroupBy(g)
    \/ \E a \in Aggregations : setAgg(a)
    \/ \E v \in ColumnNames \cup {""} : setValue(v)
    \/ buildButton
    \/ uploadSettles
    \/ chatSettles
    \/ manualSettles

Spec == Init /\ [][Next]_vars

----------------------------------------------------------------------------
(* SpecHandlers: the handlers invoked directly, without the components'   *)
(* disabled / loading guards                                              *)

\* requests a caller can pass: a count over a column, and a sum that names
\* no value column
DirectPayloads ==
    {[chartType |-> "bar", groupBy |-> "qty", value |-> NULL, agg |-> "count"],
     [chartType |-> "line", groupBy |-> "city", value |-> NULL, agg |-> "sum"]}

room == hasDataset => BagCardinality(calls) < MaxCalls

callUpload == BagCardinality(calls) < MaxCalls /\ handleUpload
callSendMessage == \E m \in Texts : room /\ handleSendMessage(m)
callBuildManualChart ==
    \E p \in DirectPayloads : room /\ handleBuildManualChart(p)

NextHandlers ==
    \/ callUpload
    \/ callSendMessage
    \/ callBuildManualChart
    \/ uploadSettles
    \/ chatSettles
    \/ manualSettles

SpecHandlers == Init /\ [][NextHandlers]_vars

----------------------------------------------------------------------------
(* SpecLive: upload, chat and manual build driven through the components, *)
(* every outstanding collaborator call eventually answered or failed (the *)
(* promise settles and its continuation runs)                             *)

liveUploadSettles ==
    \E c \in InFlight("upload") :
        \/ \E data \in {b \in UploadBodies : b.columns = Some(<<city>>)} :
              handleUpload_then(c, data)
        \/ \E f \in Failures : handleUpload_catch(c, f)

liveChatSettles ==
    \E c \in InFlight("chat") :
        \/ \E r \in {x \in ChatResponses : x.charts.has} :
              handleSendMessage_then(c, r)
        \/ \E f \in Failures : handleSendMessage_catch(c, f)

liveManualSettles ==
    \E c \in InFlight("manual") :
        \/ \E r \in {x \in ManualResponses : x.message = NULL} :
              handleBuildManualChart_then(c, r)
        \/ \E f \in Failures : handleBuildManualChart_catch(c, f)

NextLive ==
    \/ UploadPanel_handleFileChange
    \/ \E input \in Texts : ChatPanel_handleSubmit(input)
    \/ buildButton
    \/ liveUploadSettles
    \/ liveChatSettles
    \/ liveManualSettles

SpecLive ==
    /\ Init /\ [][NextLive]_vars
    /\ WF_vars(liveUploadSettles)
    /\ WF_vars(liveChatSettles)
    /\ WF_vars(liveManualSettles)

----------------------------------------------------------------------------
(* SpecGrid: the chat agent answers with chart collections of every shape *)
(* and ChartGrid lays the current collection out                          *)

MaxCharts == 3

\* charts an agent can answer with: a kind in chart_type (lower or mixed
\* case), a kind only in the series entries (naming two kinds), no kind
GridPool ==
    {ChartIdea("chart", bar, None),
     ChartIdea("chart", <<"L", "i", "n", "e">>, None),
     ChartIdea("chart", pie, None),
     ChartIdea("chart", <<>>,
               Some(<<None, Some(<<"B", "A", "R", "+", "l", "i", "n", "e">>),
                      Some(pie)>>)),
     ChartIdea("chart", <<>>, Some(<<None>>)),
     ChartIdea("chart", <<>>, None)}

GridChartLists == UNION {[1..n -> GridPool] : n \in 0..MaxCharts}

gridUploadAnswers ==
    \E c \in InFlight("upload") :
        \E data \in {b \in UploadBodies : b.session_id = "s1"
                                           /\ b.columns = Some(<<city>>)} :
            handleUpload_then(c, data)

gridChatAnswers ==
    \E c \in InFlight("chat") :
        \E cs \in GridChartLists :
            handleSendMessage_then(c, [charts |-> Some(cs), history |-> None])

NextGrid ==
    \/ UploadPanel_handleFileChange
    \/ \E input \in Texts : ChatPanel_handleSubmit(input)
    \/ gridUploadAnswers
    \/ gridChatAnswers

SpecGrid == Init /\ [][NextGrid]_vars

----------------------------------------------------------------------------
(* Steps of the handlers, as action formulas *)

uploadFails ==
    \E c \in InFlight("upload"), f \in Failures : handleUpload_catch(c, f)
chatFails(c) == \E f \in Failures : handleSendMessage_catch(c, f)
manualFails ==
    \E c \in InFlight("manual"), f \in Failures :
        handleBuildManualChart_catch(c, f)

\* App.tsx helperText: the text shown under the title
helperText == IF Truthy(error) THEN error ELSE status

uploadSucceeds ==
    \E c \in InFlight("upload"), data \in UploadBodies :
        handleUpload_then(c, data)

IsPrefix(s, t) == Len(s) <= Len(t) /\ s = SubSeq(t, 1, Len(s))

----------------------------------------------------------------------------
(* Claims *)

\* C1: whenever a chat call fails, the transcript after the failure is
\* handled equals the transcript at the moment handleSendMessage was called,
\* also when an upload started or completed while the call was in flight.
C1_ChatFailureRestoresTranscript ==
    [][\A c \in InFlight("chat") : chatFails(c) => history' = c.hist0]_vars

\* C2: at most one collaborator call (upload, chat, manual build) is in
\* flight in any reachable state.
C2_AtMostOneCallInFlight == BagCardinality(calls) <= 1

\* C3: right after a successful upload the chart collection and the
\* transcript are empty, whatever the state before.
C3_UploadClears ==
    [][\A c \in InFlight("upload"), data \in UploadBodies :
          handleUpload_then(c, data) => charts' = <<>> /\ history' = <<>>]_vars

\* C3 witness: an upload has succeeded on a session whose transcript was not
\* empty (a chat call issued on that transcript is still in flight).
C3_Witness ==
    /\ status = "Dataset loaded. Ask the agent for insights."
    /\ \E c \in InFlight("chat") : c.hist0 # <<>>
    /\ history = <<>> /\ charts = <<>>

\* C4: right after a successful chat call the transcript and the chart
\* collection are exactly the ones the Chat Collaborator returned.
C4_ChatReplaces ==
    [][\A c \in InFlight("chat"), r \in ChatResponses :
          handleSendMessage_then(c, r) =>
              /\ r.history.has => history' = r.history.v
              /\ r.charts.has => charts' = r.charts.v]_vars

\* C4 witness: a chat call has succeeded and the transcript holds the
\* returned assistant entry only; the optimistic user entry is gone.
C4_Witness ==
    /\ status = "Charts updated. Ask another question to refine."
    /\ history = <<[role |-> "assistant", content |-> "reply"]>>
    /\ charts # <<>>

\* C5: the steps of a failing upload (the call being issued, and the failure
\* being handled) leave session identifier, columns, preview, charts and
\* transcript unchanged; the failure step changes only error, status and
\* the uploading flag.
C5_UploadFailureFrame ==
    [][/\ handleUpload =>
              UNCHANGED <<sessionId, columns, preview, charts, history>>
       /\ uploadFails =>
              UNCHANGED <<sessionId, columns, preview, charts, history,
                          chatLoading, manualLoading, ctrl>>]_vars

\* C5 witness: an upload has failed while a session with a transcript and
\* charts exists.
C5_Witness ==
    /\ status = "Upload failed. Please try another file."
    /\ error # NULL /\ ~uploading
    /\ hasDataset /\ history # <<>> /\ charts # <<>>

\* C6: after a successful upload the session identifier, columns and
\* preview are the ones of that upload's response, and every column in the
\* column list is a column of that response.
C6_UploadInstalls ==
    [][\A c \in InFlight("upload"), data \in UploadBodies :
          handleUpload_then(c, data) =>
              /\ sessionId' = data.session_id
              /\ data.columns.has => columns' = data.columns.v
              /\ data.preview.has => preview' = data.preview.v
              /\ \A i \in DOMAIN columns' :
                    data.columns.has /\ columns'[i] \in Range(data.columns.v)
       ]_vars

\* C6 witness: a second upload has succeeded; its column list has no qty
\* column although a manual build of the first session, still in flight,
\* groups by qty.
C6_Witness ==
    /\ status = "Dataset loaded. Ask the agent for insights."
    /\ columns = <<city>>
    /\ \E c \in InFlight("manual") : c.payload.groupBy = "qty"

\* C7: handleSendMessage and handleBuildManualChart invoked without a
\* session issue no call and change nothing but the error, which they set.
C7_NoSessionPrecondition ==
    [][(/\ ~hasDataset
        /\ \/ \E m \in Texts : handleSendMessage(m)
           \/ \E p \in DirectPayloads : handleBuildManualChart(p))
       => /\ UNCHANGED <<sessionId, columns, preview, charts, history,
                         uploading, chatLoading, manualLoading, calls>>
          /\ error' # NULL]_vars

\* C7 witness: a handler was invoked without a session and surfaced its
\* precondition error; no chat or manual call is in flight.
C7_Witness ==
    /\ sessionId = NULL
    /\ error \in {"Upload a dataset before chatting with the agent.",
                  "Upload a dataset before building charts."}
    /\ InFlight("chat") = {} /\ InFlight("manual") = {}

\* C8: no manual-chart call in flight has an empty grouping column, or an
\* aggregation other than count without a value column; and while the
\* controls hold a non-count aggregation and no value column, the Build
\* button issues nothing.
C8_ManualPrecondition ==
    /\ \A c \in InFlight("manual") :
          /\ c.payload.groupBy # ""
          /\ c.payload.agg # "count" => Truthy(c.payload.value)
    /\ (ctrl.groupBy = "" \/ (ctrl.agg # "count" /\ ctrl.value = ""))
          => ~ENABLED buildButton

\* C8 witness: a build with aggregation count and no value column is in
\* flight.
C8_Witness ==
    \E c \in InFlight("manual") :
        c.payload.agg = "count" /\ c.payload.value = NULL

\* C9: no step of handleBuildManualChart changes transcript, session
\* identifier, columns or preview; success installs the returned chart
\* collection, failure leaves the chart collection unchanged.
C9_ManualFrame ==
    [][/\ (buildButton \/ manualFails) =>
              UNCHANGED <<history, sessionId, columns, preview, charts>>
       /\ \A c \in InFlight("manual"), r \in ManualResponses :
              handleBuildManualChart_then(c, r) =>
                  /\ UNCHANGED <<history, sessionId, columns, preview>>
                  /\ r.charts.has => charts' = r.charts.v]_vars

\* C9 witness: a manual build has succeeded in a session that has a
\* transcript, and charts are installed.
C9_Witness ==
    /\ status \in {"Built chart.", "Chart updated."}
    /\ history # <<>> /\ charts # <<>>

\* C10: a failed chat call leaves charts, session identifier, columns and
\* preview unchanged and removes at most the last transcript entry; no
\* failure step of any operation resets the session identifier to null or
\* empties a non-empty chart collection.
C10_FailureFrame ==
    [][/\ \A c \in InFlight("chat") : chatFails(c) =>
              /\ UNCHANGED <<charts, sessionId, columns, preview>>
              /\ IsPrefix(history', history)
              /\ Len(history') >= Len(history) - 1
       /\ (uploadFails \/ manualFails \/ \E c \in InFlight("chat") : chatFails(c))
              => /\ sessionId # NULL => sessionId' # NULL
                 /\ charts # <<>> => charts' # <<>>]_vars

\* C10 witness: a chat call has failed in a session with charts and earlier
\* transcript entries.
C10_Witness ==
    /\ status = "Agent error. Try sending your message again."
    /\ hasDataset /\ charts # <<>> /\ history # <<>>

----------------------------------------------------------------------------
(* Claims about the chart grid *)

\* App.tsx renders <ChartGrid charts={charts} />: the layout of the current
\* chart collection
grid == ChartGrid(charts)

\* the resolved kind of each chart of the current collection
kinds == [i \in DOMAIN charts |-> normalizeType(charts[i])]

\* the position in the collection of the chart each slot shows (0: empty)
shown == [k \in DOMAIN grid.slots |-> grid.slots[k].chart.pos]

\* C11: the slots are filled in the order bar, line, pie; each slot gets the
\* chart of highest position that no earlier slot claimed and whose resolved
\* kind contains the slot's kind, or stays empty when there is none.  For
\* kinds [line, bar, bar] the bar slot shows the third chart, the line slot
\* the first, the pie slot nothing, and the second chart is in no slot.
C11_SlotAssignment ==
    LET expected == <<bar, line, pie>>
        claimedBefore(k) == {shown[j] : j \in 1..(k - 1)}
        candidates(k) ==
            {i \in DOMAIN charts \ claimedBefore(k) :
                includes(kinds[i], expected[k])} IN
    /\ DOMAIN grid.slots = 1..3
    /\ \A k \in 1..3 :
        /\ grid.slots[k].expectedType = expected[k]
        /\ IF candidates(k) = {}
           THEN grid.slots[k].chart = NoRef
           ELSE /\ shown[k] \in candidates(k)
                /\ \A i \in candidates(k) : i <= shown[k]
                /\ grid.slots[k].chart.chart = charts[shown[k]]
    /\ kinds = <<line, bar, bar>> => shown = <<3, 1, 0>>

C11_Witness ==
    /\ kinds = <<line, bar, bar>>
    /\ shown = <<3, 1, 0>>
    /\ \A k \in 1..3 : shown[k] # 2

\* C12: the assignment is injective: a slot shows at most one chart, a chart
\* of the collection, and no position of the collection is shown by two slots.
C12_Injective ==
    /\ \A k \in DOMAIN grid.slots :
        \/ grid.slots[k].chart = NoRef
        \/ /\ shown[k] \in DOMAIN charts
           /\ grid.slots[k].chart = Ref(shown[k], charts[shown[k]])
    /\ \A j, k \in DOMAIN grid.slots :
        (j # k /\ shown[j] # 0) => shown[j] # shown[k]

\* a chart whose kind matches both the bar and the line slot is shown by the
\* bar slot, and the line slot shows another chart
C12_Witness ==
    \E i \in DOMAIN charts :
        /\ includes(kinds[i], bar) /\ includes(kinds[i], line)
        /\ shown[1] = i
        /\ shown[2] \notin {0, i}

\* C13 as stated: for every slot that shows a chart, no chart at a later
\* position of the collection has a resolved kind containing the slot's kind.
\* Violated: with kinds [line, bar+line] the bar slot claims the second chart
\* and the line slot shows the first, although the second matches line too.
C13_NoLaterMatch ==
    \A k \in DOMAIN grid.slots :
        shown[k] # 0 =>
            \A j \in DOMAIN charts :
                j > shown[k] => ~includes(kinds[j], grid.slots[k].expectedType)

\* C13, amended: for every slot that shows a chart, every chart at a later
\* position whose resolved kind contains the slot's kind is shown by an
\* earlier slot: among the charts the earlier slots left, the last one wins.
C13_NoLaterUnclaimedMatch ==
    \A k \in DOMAIN grid.slots :
        shown[k] # 0 =>
            \A j \in DOMAIN charts :
                (j > shown[k] /\ includes(kinds[j], grid.slots[k].expectedType))
                    => \E e \in 1..(k - 1) : shown[e] = j

\* the line slot shows a chart although a later chart matches line: the bar
\* slot took that one; and a slot prefers the later of two unclaimed matches
C13_Witness ==
    /\ \E j \in DOMAIN charts :
        /\ shown[2] # 0 /\ j > shown[2]
        /\ includes(kinds[j], line) /\ shown[1] = j
    /\ \E i \in DOMAIN charts :
        i < shown[1] /\ includes(kinds[i], bar)

C15_NormalizeType ==
    LET uppers == {UpperLetters[n] : n \in DOMAIN UpperLetters}
        IsLowerCased(r, s) ==
            /\ Len(r) = Len(s)
            /\ \A p \in DOMAIN s :
                /\ r[p] \notin uppers
                /\ \/ r[p] = s[p]
                   \/ \E n \in DOMAIN UpperLetters :
                        s[p] = UpperLetters[n] /\ r[p] = LowerLetters[n]
        typed(c) ==
            IF c.series.has
            THEN {j \in DOMAIN c.series.v : c.series.v[j].has} ELSE {} IN
    /\ normalizeType(NoChart) = <<>>
    /\ \A i \in DOMAIN charts :
        LET c == charts[i] IN
        IF c.chart_type # <<>>
        THEN IsLowerCased(normalizeType(c), c.chart_type)
        ELSE IF typed(c) # {}
        THEN \E j \in typed(c) :
                /\ \A e \in typed(c) : j <= e
                /\ IsLowerCased(normalizeType(c), c.series.v[j].v)
        ELSE normalizeType(c) = <<>>

\* a collection with a mixed-case chart_type, a chart whose kind comes from a
\* series entry that is neither the first nor the only one with a type, a
\* chart with a series list without types and a chart without a series list
C15_Witness ==
    /\ \E i \in DOMAIN charts :
        charts[i].chart_type # <<>> /\ kinds[i] # charts[i].chart_type
    /\ \E i \in DOMAIN charts :
        /\ charts[i].chart_type = <<>> /\ charts[i].series.has
        /\ ~charts[i].series.v[1].has
        /\ Cardinality({j \in DOMAIN charts[i].series.v :
                            charts[i].series.v[j].has}) > 1
        /\ kinds[i] = <<"b", "a", "r", "+", "l", "i", "n", "e">>
    /\ \E i \in DOMAIN charts :
        charts[i].chart_type = <<>> /\ kinds[i] = <<>>

\* C16: for every chart shown in a slot, the kind its card displays
\* (getDisplayType) is the lower-cased kind normalizeType computes for it.
\* Violated: getDisplayType returns chart_type, or the series type, as
\* written, so a chart of chart_type "Line" is matched as "line" and
\* labelled "Line".
C16_DisplayIsResolvedKind ==
    \A k \in DOMAIN grid.slots :
        shown[k] # 0 =>
            displayType(grid.slots[k]) = Some(normalizeType(charts[shown[k]]))

----------------------------------------------------------------------------
(* Claims about the transcript and the errors *)

\* C17: sendMessage appends the user entry before the chat call resolves.  A
\* submit step issues the call and leaves the transcript as it was followed
\* by one user entry with the sent text; and while the call stays in flight
\* every step but a successful upload keeps the transcript equal to the
\* transcript at the time of the call followed by that entry.
C17_OptimisticAppend ==
    [][LET sent(c) ==
               Append(c.hist0, [role |-> "user", content |-> c.msg]) IN
       /\ \A m \in Texts :
            ChatPanel_handleSubmit(m) =>
                \E c \in DOMAIN calls' :
                    /\ c.kind = "chat" /\ c.msg = m /\ c.hist0 = history
                    /\ ~BagIn(c, calls)
                    /\ history' = sent(c)
       /\ \A c \in InFlight("chat") :
            (BagIn(c, calls') /\ history = sent(c) /\ ~uploadSucceeds)
                => history' = sent(c)]_vars

\* a chat call in flight over a non-empty earlier transcript, after a manual
\* build completed during the call
C17_Witness ==
    \E c \in InFlight("chat") :
        /\ c.hist0 # <<>>
        /\ history = Append(c.hist0, [role |-> "user", content |-> c.msg])
        /\ ~manualLoading
        /\ status \in {"Built chart.", "Chart updated."}

\* C18: the rollback of a failed chat call removes nothing but the user entry
\* that call appended: either the transcript is the transcript at call time
\* followed by that entry and the rollback restores the transcript at call
\* time, or the transcript is empty and stays empty.  No assistant entry, no
\* earlier user entry and no entry of another operation is removed.
C18_RollbackRemovesOwnEntry ==
    [][\A c \in InFlight("chat") :
          chatFails(c) =>
              \/ /\ history = Append(c.hist0,
                                     [role |-> "user", content |-> c.msg])
                 /\ history' = c.hist0
              \/ history = <<>> /\ history' = <<>>]_vars

\* a failed chat call rolled back to a non-empty earlier transcript while an
\* upload is in flight
C18_Witness ==
    /\ status = "Agent error. Try sending your message again."
    /\ error # NULL /\ ~chatLoading /\ uploading
    /\ history # <<>>

----------------------------------------------------------------------------
(* Claims about the rendered layout *)

\* C20: the layout of the current chart collection has exactly three slots,
\* for bar, line and pie in this order; a slot shows nothing or a chart of
\* the current collection, and is empty exactly when no chart left by the
\* slots before it matches its kind; the charts left over after the three
\* slots are in no slot.
C20_Layout ==
    LET expected == <<bar, line, pie>>
        unclaimed(k) == DOMAIN charts \ {shown[j] : j \in 1..(k - 1)}
        leftover == {grid.remaining[i].pos : i \in DOMAIN grid.remaining} IN
    /\ Len(grid.slots) = 3
    /\ [k \in 1..3 |-> grid.slots[k].expectedType] = expected
    /\ \A k \in 1..3 :
        /\ shown[k] \in 0..Len(charts)
        /\ shown[k] = 0 <=>
            ~\E i \in unclaimed(k) : includes(kinds[i], expected[k])
    /\ leftover = DOMAIN charts \ {shown[k] : k \in 1..3}
    /\ \A i \in leftover : \A k \in 1..3 : shown[k] # i

\* after the agent's answer the collection holds two charts for the bar slot
\* and none for the pie slot: one slot filled, one empty, one chart left over
C20_Witness ==
    /\ status = "Charts updated. Ask another question to refine."
    /\ shown[1] # 0 /\ shown[3] = 0
    /\ \E i \in DOMAIN charts :
        /\ includes(kinds[i], bar)
        /\ \A k \in 1..3 : shown[k] # i

----------------------------------------------------------------------------
(* Claims about omitted fields, sessions, busy flags and the shown text *)

\* C21: a successful chat response that omits the chart collection leaves an
\* empty chart collection, one that omits the transcript leaves an empty
\* transcript, and a successful manual-build response that omits the chart
\* collection leaves an empty chart collection; the existing value is not
\* kept.
C21_OmittedFieldsEmpty ==
    [][/\ \A c \in InFlight("chat") :
            \A r \in {x \in ChatResponses : ~x.charts.has \/ ~x.history.has} :
                handleSendMessage_then(c, r) =>
                    /\ ~r.charts.has => charts' = <<>>
                    /\ ~r.history.has => history' = <<>>
       /\ \A c \in InFlight("manual") :
            \A r \in {x \in ManualResponses : ~x.charts.has} :
                handleBuildManualChart_then(c, r) => charts' = <<>>]_vars

\* a chat call over an existing chart has succeeded and charts and transcript
\* are both empty, while a manual build is still in flight
C21_Witness ==
    /\ status = "Charts updated. Ask another question to refine."
    /\ ~chatLoading /\ manualLoading
    /\ charts = <<>> /\ history = <<>>

\* C22: a chat or manual-build response is installed only while the session
\* identifier is still the one the request was issued with.
\* Violated: the file input is disabled by uploading alone, so an upload can
\* succeed while a chat or manual call is in flight, and the answer for the
\* old session then replaces the charts and transcript of the new one.
C22_NoStaleResponse ==
    [][/\ \A c \in InFlight("chat"), r \in ChatResponses :
            handleSendMessage_then(c, r) => c.sid = sessionId
       /\ \A c \in InFlight("manual"), r \in ManualResponses :
            handleBuildManualChart_then(c, r) => c.sid = sessionId]_vars

\* C23: every manual chart request that is issued names only columns of the
\* current column list: its grouping column and, when present, its value
\* column.
\* Violated: the controls keep groupBy and value across uploads (the effects
\* fill them only when empty), so after a second upload with other columns
\* the Build button sends the selection made for the first dataset.
C23_RequestNamesCurrentColumns ==
    [][\A c \in DOMAIN calls' :
          (c.kind = "manual" /\ CopiesIn(c, calls') > CopiesIn(c, calls)) =>
              /\ c.payload.groupBy \in Range(groupableColumns(columns))
              /\ c.payload.value # NULL =>
                    c.payload.value \in Range(groupableColumns(columns))]_vars

\* C24: each busy flag is true exactly while a call of its kind is
\* outstanding, and, the collaborators eventually answering or failing, a
\* flag that is set is eventually reset, on the success and on the failure
\* path.
C24_BusyFlags ==
    /\ [](/\ uploading <=> InFlight("upload") # {}
          /\ chatLoading <=> InFlight("chat") # {}
          /\ manualLoading <=> InFlight("manual") # {})
    /\ uploading ~> ~uploading
    /\ chatLoading ~> ~chatLoading
    /\ manualLoading ~> ~manualLoading

\* the chat flag was reset on the failure path while a manual build is still
\* outstanding and its flag still set
C24_Witness ==
    /\ status = "Agent error. Try sending your message again."
    /\ ~chatLoading /\ InFlight("chat") = {}
    /\ manualLoading /\ InFlight("manual") # {}

\* C25: right after an operation completes successfully the text shown to
\* the user is the status that operation set; no error is left set.
\* Violated: a success path never clears error, so the error of a manual
\* build that failed while a chat call was in flight still masks the status
\* when the chat call succeeds.
C25_SuccessStatusShown ==
    [][(\/ uploadSucceeds
        \/ \E c \in InFlight("chat"), r \in ChatResponses :
              handleSendMessage_then(c, r)
        \/ \E c \in InFlight("manual"), r \in ManualResponses :
              handleBuildManualChart_then(c, r))
           => helperText' = status']_vars

====
